---- MODULE Spec2Model ----
(***************************************************************************)
(* Model of the chat relay: main, chat_handler (the request gateway) and   *)
(* call_gemini_api (the upstream resolver) of src/src/main.rs, and the     *)
(* command-line client run_interactive_chat of src/src/cli.rs.             *)
(*                                                                         *)
(* A chat call is a small process: it validates the message, reads the     *)
(* credential, builds the HTTP client and then walks the two nested loops  *)
(* over API versions and models, awaiting one upstream call at a time.     *)
(* The upstream service is described per call by a function from candidate *)
(* to the outcome that candidate's attempt has.                            *)
(***************************************************************************)
EXTENDS Integers, Sequences, FiniteSets, TLC

VARIABLES env, proc, req, cli

vars == <<env, proc, req, cli>>

(***************************************************************************)
(* Text.  A text (a message, a generated reply) is a sequence of runs      *)
(* [ch, n]: the character ch repeated n >= 1 times, so that texts of ten   *)
(* thousand characters are values the model can hold.                      *)
(***************************************************************************)

\* Longest sequence of runs in a message the gateway is given.
MaxRuns == 2

\* The length limit of chat_handler.
MAX_MESSAGE_LEN == 10000

SPACE == " "
LINE_FEED == "\n"
IDEOGRAPHIC_SPACE == "U+3000"
LATIN_A == "a"
E_ACUTE == "U+00E9"

Chars == {SPACE, IDEOGRAPHIC_SPACE, LATIN_A, E_ACUTE}

\* char::is_whitespace, which str::trim uses: the Unicode White_Space property.
IsWhitespace(c) == c \in {SPACE, LINE_FEED, IDEOGRAPHIC_SPACE}

\* The number of bytes of a character in UTF-8 (char::len_utf8).
Utf8Len(c) ==
    CASE c = SPACE -> 1
      [] c = LATIN_A -> 1
      [] c = E_ACUTE -> 2
      [] c = IDEOGRAPHIC_SPACE -> 3

Run(c, n) == [ch |-> c, n |-> n]

RECURSIVE ByteLen(_)
\* str::len: the length of a string in bytes.
ByteLen(s) ==
    IF s = <<>> THEN 0 ELSE Head(s).n * Utf8Len(Head(s).ch) + ByteLen(Tail(s))

RECURSIVE CharCount(_)
\* The number of characters of a string (s.chars().count()).
CharCount(s) == IF s = <<>> THEN 0 ELSE Head(s).n + CharCount(Tail(s))

RECURSIVE TrimStart(_)
TrimStart(s) ==
    IF s = <<>> THEN <<>>
    ELSE IF IsWhitespace(Head(s).ch) THEN TrimStart(Tail(s)) ELSE s

RECURSIVE TrimEnd(_)
TrimEnd(s) ==
    IF s = <<>> THEN <<>>
    ELSE IF IsWhitespace(s[Len(s)].ch) THEN TrimEnd(SubSeq(s, 1, Len(s) - 1)) ELSE s

\* str::trim: leading and trailing whitespace removed.
Trim(s) == TrimEnd(TrimStart(s))

\* Run lengths around the limit and around its half (two-byte characters).
RunLens ==
    {1, MAX_MESSAGE_LEN \div 2, MAX_MESSAGE_LEN \div 2 + 1,
     MAX_MESSAGE_LEN - 1, MAX_MESSAGE_LEN, MAX_MESSAGE_LEN + 1}

Runs == {Run(c, n) : c \in Chars, n \in RunLens}

RECURSIVE TextsOfRuns(_)
\* The texts of exactly k runs, adjacent runs of different characters.
TextsOfRuns(k) ==
    IF k = 0 THEN {<<>>}
    ELSE UNION { {Append(s, r) : r \in {q \in Runs : s = <<>> \/ q.ch # s[Len(s)].ch}} :
                 s \in TextsOfRuns(k - 1) }

\* The messages a chat call is given.
Messages == UNION {TextsOfRuns(k) : k \in 0..MaxRuns}

HELLO == <<Run(LATIN_A, 1)>>
WORLD == <<Run(E_ACUTE, 1), Run(LATIN_A, 1)>>
PADDED_WORLD == <<Run(SPACE, 1), Run(LATIN_A, 1), Run(SPACE, 1)>>

\* The texts the upstream generates.
Texts == {<<>>, WORLD, PADDED_WORLD}

(***************************************************************************)
(* Lines.  Error strings, URLs and log lines are sequences of pieces, the  *)
(* literal parts of the format string and the values put between them.     *)
(***************************************************************************)

KEY_NOT_FOUND == <<"GEMINI_API_KEY not found in environment variables">>

EXHAUSTED ==
    <<"Failed to get response from Gemini API. Please check your API key and model availability.">>

ClientError(e) == <<"Failed to create HTTP client: ", e>>

EMPTY_MESSAGE == <<"Message cannot be empty">>

TOO_LONG == <<"Message is too long (max 10000 characters)">>

Url(api_version, model, api_key) ==
    <<"https://generativelanguage.googleapis.com/", api_version, "/models/", model,
      ":generateContent?key=", api_key>>

\* Whether a line carries the value v as one of its pieces.
Contains(line, v) == \E i \in DOMAIN line : line[i] = v

(***************************************************************************)
(* The process environment.                                                *)
(***************************************************************************)

API_KEY == "AIzaSy-secret"

NotPresent == [state |-> "NotPresent", value |-> ""]
NotUnicode == [state |-> "NotUnicode", value |-> ""]
Present(v) == [state |-> "Present", value |-> v]

EnvStates == {NotPresent, NotUnicode, Present(API_KEY)}

\* env::var("GEMINI_API_KEY"): Ok only for a variable that is set and valid Unicode.
EnvVar(e) == [ok |-> e.state = "Present", value |-> e.value]

(***************************************************************************)
(* Candidates and the upstream's answers.                                  *)
(***************************************************************************)

models == <<"gemini-2.5-flash", "gemini-flash-latest", "gemini-pro-latest", "gemini-2.0-flash">>

api_versions == <<"v1beta", "v1">>

Candidate(vi, mi) == <<api_versions[vi], models[mi]>>

Candidates == {Candidate(vi, mi) : vi \in DOMAIN api_versions, mi \in DOMAIN models}

\* A request body built from the trimmed message.
GeminiRequestTrimmed(message) == [contents |-> <<[parts |-> <<[text |-> Trim(message)]>>]>>]

\* The request body: one content with one part, the message.
GeminiRequest(message) == [contents |-> <<[parts |-> <<[text |-> message]>>]>>]

NoBody ==
    [readable |-> FALSE, raw |-> "", json |-> "none", candidates |-> <<>>,
     code |-> 0, message |-> "", status |-> ""]

\* A body that is JSON of the success schema: a list of generations, each a list
\* of the texts of its parts.
GenerationBody(cands) ==
    [NoBody EXCEPT !.readable = TRUE, !.raw = "{candidates}", !.json = "generation",
                   !.candidates = cands]

\* A body that is JSON of the shape {error: {code, message, status}}.
ErrorBody(code, status, message) ==
    [NoBody EXCEPT !.readable = TRUE, !.raw = "{error}", !.json = "error",
                   !.code = code, !.status = status, !.message = message]

\* A body that is neither.
PlainBody(raw) == [NoBody EXCEPT !.readable = TRUE, !.raw = raw]

\* A body whose read fails (the connection drops after the status line).
BrokenBody == NoBody

NoOutcome == [sent |-> FALSE, error |-> "", status |-> 0, body |-> NoBody]

\* send() failed: no response.
TransportError(e) == [NoOutcome EXCEPT !.error = e]

\* send() returned a response.
HttpResponse(status, body) == [sent |-> TRUE, error |-> "", status |-> status, body |-> body]

\* StatusCode::is_success.
IsSuccess(status) == status >= 200 /\ status <= 299

\* response.json::<GeminiResponse>().
ParseGeminiResponse(body) ==
    [ok |-> body.readable /\ body.json = "generation", candidates |-> body.candidates]

\* FirstPartText falling back to the first generation that has a part.
FirstPartTextAnyGeneration(candidates) ==
    LET with == {i \in DOMAIN candidates : candidates[i] # <<>>} IN
    IF with = {} THEN [some |-> FALSE, text |-> <<>>]
    ELSE [some |-> TRUE, text |-> candidates[CHOOSE i \in with : \A j \in with : i <= j][1]]

\* candidates.first().and_then(|c| c.content.parts.first()).map(|p| p.text.clone())
FirstPartText(candidates) ==
    IF candidates = <<>> THEN [some |-> FALSE, text |-> <<>>]
    ELSE IF candidates[1] = <<>> THEN [some |-> FALSE, text |-> <<>>]
    ELSE [some |-> TRUE, text |-> candidates[1][1]]

\* response.text().await.unwrap_or_else(|_| "Unknown error")
ErrorText(body) == IF body.readable THEN body.raw ELSE "Unknown error"

\* serde_json::from_str::<GeminiErrorResponse>(&error_text); code is a u16.
ParseGeminiErrorResponse(body) ==
    [ok |-> body.readable /\ body.json = "error" /\ body.code >= 0 /\ body.code <= 65535,
     code |-> body.code, status |-> body.status, message |-> body.message]

(***************************************************************************)
(* main: the mode of the process.                                          *)
(***************************************************************************)

\* The process at the start of main with the arguments args (args[1] is the
\* program's name, Rust's args[0]).
NewProcess(args) == [state |-> "main", args |-> args, stderr |-> <<>>]

\* args.len() > 1 && (args[1] == "chat" || "cli" || "--chat" || "--cli").
IsCliMode(args) == Len(args) > 1 /\ args[2] \in {"chat", "cli", "--chat", "--cli"}

\* The two warnings of main when the key is missing.
KeyWarning(e) ==
    IF EnvVar(e).ok THEN <<>>
    ELSE << <<"Warning: GEMINI_API_KEY not found in environment variables">>,
            <<"   Please create a .env file with your API key">> >>

\* MainServe that refuses to start without the key.
MainServeRequiresKey ==
    /\ proc.state = "main"
    /\ ~IsCliMode(proc.args)
    /\ proc' = [proc EXCEPT !.state = IF EnvVar(env).ok THEN "serving" ELSE "exited",
                            !.stderr = @ \o KeyWarning(env)]
    /\ UNCHANGED <<env, req, cli>>

\* main in server mode: a missing key is warned about, the router is built,
\* the listener is bound and the server serves.
MainServe ==
    /\ proc.state = "main"
    /\ ~IsCliMode(proc.args)
    /\ proc' = [proc EXCEPT !.state = "serving", !.stderr = @ \o KeyWarning(env)]
    /\ UNCHANGED <<env, req, cli>>

\* main in server mode: binding port 3000 fails, the expect panics.
MainBindFailed ==
    /\ proc.state = "main"
    /\ ~IsCliMode(proc.args)
    /\ proc' = [proc EXCEPT !.state = "panicked",
                            !.stderr = @ \o KeyWarning(env) \o
                                << <<"Failed to bind to port 3000. Is another server running?">> >>]
    /\ UNCHANGED <<env, req, cli>>

(***************************************************************************)
(* A chat call: one invocation of chat_handler.                            *)
(***************************************************************************)

NoResult == [tag |-> "None", text |-> <<>>, err |-> <<>>]
Ok(text) == [tag |-> "Ok", text |-> text, err |-> <<>>]
Err(e) == [tag |-> "Err", text |-> <<>>, err |-> e]

NoReply == [status |-> 0, response |-> <<>>, error |-> <<>>]

\* ChatResponse with the text trimmed.
ChatResponseTrimmed(text) == [status |-> 200, response |-> Trim(text), error |-> <<>>]

\* 200 with ChatResponse {response}.
ChatResponse(text) == [status |-> 200, response |-> text, error |-> <<>>]

\* A status with ErrorResponse {error}.
ErrorResponse(status, e) == [status |-> status, response |-> <<>>, error |-> e]

\* The state of a call at its start: the payload's message, and what the upstream
\* will answer to each candidate's attempt of this call.
NewCall(m, u) ==
    [pc |-> "chat_handler", message |-> m, upstream |-> u, api_key |-> "",
     client |-> "none", vi |-> 0, mi |-> 0, calls |-> <<>>, response |-> NoOutcome,
     log |-> <<>>, result |-> NoResult, reply |-> NoReply]

\* The candidate the loops are at.
Current(s) == Candidate(s.vi, s.mi)

CurrentUrl(s) == Url(api_versions[s.vi], models[s.mi], s.api_key)

\* Advance with the inner loop one model short.
AdvanceSkipsLastModel(s) ==
    IF s.mi < Len(models) - 1
    THEN [s EXCEPT !.mi = @ + 1, !.pc = "loop", !.response = NoOutcome]
    ELSE [s EXCEPT !.vi = @ + 1, !.mi = 1, !.pc = "loop", !.response = NoOutcome]

\* The end of the inner loop's body: the next model, or the next API version
\* with the first model.
Advance(s) ==
    IF s.mi < Len(models)
    THEN [s EXCEPT !.mi = @ + 1, !.pc = "loop", !.response = NoOutcome]
    ELSE [s EXCEPT !.vi = @ + 1, !.mi = 1, !.pc = "loop", !.response = NoOutcome]

Logged(s, line) == [s EXCEPT !.log = Append(@, line)]

\* A step with the loops' position kept in one place for all calls: a call at
\* the head of its loop takes over the position the stepping call has moved to.
StepSharesPosition(r, s) ==
    /\ proc.state = "serving"
    /\ req' = [q \in DOMAIN req |->
                 IF q = r THEN s
                 ELSE IF req[q].pc = "loop" /\ s.pc = "loop"
                      THEN [req[q] EXCEPT !.vi = s.vi, !.mi = s.mi]
                      ELSE req[q]]
    /\ UNCHANGED <<env, proc, cli>>

\* A step of the chat call r of the serving process.
Step(r, s) ==
    /\ proc.state = "serving"
    /\ req' = [req EXCEPT ![r] = s]
    /\ UNCHANGED <<env, proc, cli>>

\* Validate with the two checks in the other order.
ValidateLengthFirst(m) ==
    IF ByteLen(m) > MAX_MESSAGE_LEN THEN "too_long"
    ELSE IF Trim(m) = <<>> THEN "empty"
    ELSE "valid"

\* Validate with the length of the trimmed message checked.
ValidateTrimmedLength(m) ==
    IF Trim(m) = <<>> THEN "empty"
    ELSE IF ByteLen(Trim(m)) > MAX_MESSAGE_LEN THEN "too_long"
    ELSE "valid"

\* The two checks of chat_handler in their order: the trimmed message is empty,
\* then the message is longer than the limit.
Validate(m) ==
    IF Trim(m) = <<>> THEN "empty"
    ELSE IF ByteLen(m) > MAX_MESSAGE_LEN THEN "too_long"
    ELSE "valid"

\* chat_handler: the trimmed message is empty.
ChatHandlerEmpty(r) ==
    LET s == req[r] IN
    /\ s.pc = "chat_handler"
    /\ Validate(s.message) = "empty"
    /\ Step(r, [s EXCEPT !.pc = "done", !.reply = ErrorResponse(400, EMPTY_MESSAGE)])

\* A handler that calls the resolver before it looks at the length.
ChatHandlerTooLongCalls(r) ==
    LET s == req[r] IN
    /\ s.pc = "chat_handler"
    /\ Validate(s.message) = "too_long"
    /\ Step(r, [s EXCEPT !.pc = "call_gemini_api"])

\* chat_handler: the message is longer than the limit.
ChatHandlerTooLong(r) ==
    LET s == req[r] IN
    /\ s.pc = "chat_handler"
    /\ Validate(s.message) = "too_long"
    /\ Step(r, [s EXCEPT !.pc = "done", !.reply = ErrorResponse(400, TOO_LONG)])

\* chat_handler: the message is valid; call_gemini_api(&payload.message).
ChatHandlerCall(r) ==
    LET s == req[r] IN
    /\ s.pc = "chat_handler"
    /\ Validate(s.message) = "valid"
    /\ Step(r, [s EXCEPT !.pc = "call_gemini_api"])

\* ApiKeyMissing with the missing key defaulted to the empty string.
ApiKeyMissingDefaults(r) ==
    LET s == req[r] IN
    /\ s.pc = "call_gemini_api"
    /\ ~EnvVar(env).ok
    /\ Step(r, [s EXCEPT !.pc = "loop", !.client = "built", !.vi = 1, !.mi = 1])

\* call_gemini_api: env::var fails, the ? returns the error.
ApiKeyMissing(r) ==
    LET s == req[r] IN
    /\ s.pc = "call_gemini_api"
    /\ ~EnvVar(env).ok
    /\ Step(r, [s EXCEPT !.pc = "returned", !.result = Err(KEY_NOT_FOUND)])

\* The errors ClientBuilder::build can end with.
ClientBuildErrors == {"builder error", "builder error: TLS backend"}

\* call_gemini_api: the key is read, building the HTTP client fails.
ClientBuildFailed(r) ==
    LET s == req[r] IN
    /\ s.pc = "call_gemini_api"
    /\ EnvVar(env).ok
    /\ \E e \in ClientBuildErrors :
         Step(r, [s EXCEPT !.pc = "returned", !.api_key = EnvVar(env).value,
                           !.client = "failed", !.result = Err(ClientError(e))])

\* call_gemini_api: the key is read, the client and the request body are built,
\* the loops start at the first API version and the first model.
ClientBuilt(r) ==
    LET s == req[r] IN
    /\ s.pc = "call_gemini_api"
    /\ EnvVar(env).ok
    /\ Step(r, [s EXCEPT !.pc = "loop", !.api_key = EnvVar(env).value,
                         !.client = "built", !.vi = 1, !.mi = 1])

\* SendRequest racing the next model along with the current one.
SendRequestRaces(r) ==
    LET s == req[r]
        call(mi) == [url |-> Url(api_versions[s.vi], models[mi], s.api_key),
                     api_version |-> api_versions[s.vi],
                     model |-> models[mi],
                     json |-> GeminiRequest(s.message)]
    IN
    /\ s.pc = "loop"
    /\ s.vi <= Len(api_versions)
    /\ Step(r, [s EXCEPT !.pc = "send",
                         !.calls = IF s.mi < Len(models)
                                   THEN @ \o <<call(s.mi), call(s.mi + 1)>>
                                   ELSE Append(@, call(s.mi))])

\* The loop body's start: the URL is formatted and the request is sent.
SendRequest(r) ==
    LET s == req[r] IN
    /\ s.pc = "loop"
    /\ s.vi <= Len(api_versions)
    /\ Step(r, [s EXCEPT !.pc = "send",
                         !.calls = Append(@, [url |-> CurrentUrl(s),
                                              api_version |-> api_versions[s.vi],
                                              model |-> models[s.mi],
                                              json |-> GeminiRequest(s.message)])])

\* send().await is Err: logged, continue.
SendFailed(r) ==
    LET s == req[r]
        o == s.upstream[Current(s)]
    IN
    /\ s.pc = "send"
    /\ ~o.sent
    /\ Step(r, Advance(Logged(s, <<"Failed to send request to ">> \o CurrentUrl(s)
                                   \o <<": ", o.error>>)))

\* send().await is Ok(resp): logged; the status decides which body read follows.
SendOk(r) ==
    LET s == req[r]
        o == s.upstream[Current(s)]
    IN
    /\ s.pc = "send"
    /\ o.sent
    /\ Step(r, [Logged(s, <<"Trying: ", api_versions[s.vi], " (model: ", models[s.mi], ")">>)
                  EXCEPT !.response = o,
                         !.pc = IF IsSuccess(o.status) THEN "json" ELSE "text"])

\* JsonText without the return: the text is kept and the loop goes on.
JsonTextKeepsGoing(r) ==
    LET s == req[r]
        parsed == ParseGeminiResponse(s.response.body)
        first == FirstPartText(parsed.candidates)
    IN
    /\ s.pc = "json"
    /\ parsed.ok
    /\ first.some
    /\ Step(r, [Advance(Logged(s, <<"Success with ", api_versions[s.vi], " / ", models[s.mi]>>))
                  EXCEPT !.result = Ok(first.text)])

\* A success status, the body decodes and has a first part: return Ok(text).
JsonText(r) ==
    LET s == req[r]
        parsed == ParseGeminiResponse(s.response.body)
        first == FirstPartText(parsed.candidates)
    IN
    /\ s.pc = "json"
    /\ parsed.ok
    /\ first.some
    /\ Step(r, [Logged(s, <<"Success with ", api_versions[s.vi], " / ", models[s.mi]>>)
                  EXCEPT !.pc = "returned", !.result = Ok(first.text)])

\* A success status, the body decodes and has no first generation or no first
\* part: the match arm ends, and with it the loop body.
JsonNoText(r) ==
    LET s == req[r]
        parsed == ParseGeminiResponse(s.response.body)
    IN
    /\ s.pc = "json"
    /\ parsed.ok
    /\ ~FirstPartText(parsed.candidates).some
    /\ Step(r, Advance(s))

\* A success status, the body does not decode: logged, continue.
JsonFailed(r) ==
    LET s == req[r] IN
    /\ s.pc = "json"
    /\ ~ParseGeminiResponse(s.response.body).ok
    /\ Step(r, Advance(Logged(s, <<"Failed to parse response from ">> \o CurrentUrl(s)
                                   \o <<": ", "error decoding response body">>)))

\* ErrorStructured returning the upstream's error instead of continuing.
ErrorStructuredReturns(r) ==
    LET s == req[r]
        e == ParseGeminiErrorResponse(s.response.body)
    IN
    /\ s.pc = "text"
    /\ e.ok
    /\ Step(r, [s EXCEPT !.pc = "returned", !.result = Err(<<e.message>>)])

\* Another status, the body text decodes as the structured error: logged, continue.
ErrorStructured(r) ==
    LET s == req[r]
        e == ParseGeminiErrorResponse(s.response.body)
    IN
    /\ s.pc = "text"
    /\ e.ok
    /\ Step(r, Advance(Logged(s, <<"API error from ", api_versions[s.vi], " / ", models[s.mi],
                                   ": ", e.status, " (", ToString(e.code), "): ", e.message>>)))

\* Another status, the body text does not decode: logged, continue.
ErrorUnstructured(r) ==
    LET s == req[r] IN
    /\ s.pc = "text"
    /\ ~ParseGeminiErrorResponse(s.response.body).ok
    /\ Step(r, Advance(Logged(s, <<"HTTP ", ToString(s.response.status), " from ",
                                   api_versions[s.vi], " / ", models[s.mi], ": ",
                                   ErrorText(s.response.body)>>)))

\* LoopExhausted returning the last candidate's failure as logged.
LoopExhaustedLeaks(r) ==
    LET s == req[r] IN
    /\ s.pc = "loop"
    /\ s.vi > Len(api_versions)
    /\ Step(r, [s EXCEPT !.pc = "returned", !.result = Err(s.log[Len(s.log)])])

\* LoopExhausted one API version early.
LoopExhaustedEarly(r) ==
    LET s == req[r] IN
    /\ s.pc = "loop"
    /\ s.vi >= Len(api_versions)
    /\ Step(r, [s EXCEPT !.pc = "returned", !.result = Err(EXHAUSTED)])

\* The loops have ended: the final Err.
LoopExhausted(r) ==
    LET s == req[r] IN
    /\ s.pc = "loop"
    /\ s.vi > Len(api_versions)
    /\ Step(r, [s EXCEPT !.pc = "returned", !.result = Err(EXHAUSTED)])

\* chat_handler: Ok(response) => the 200 reply.
ChatHandlerOk(r) ==
    LET s == req[r] IN
    /\ s.pc = "returned"
    /\ s.result.tag = "Ok"
    /\ Step(r, [s EXCEPT !.pc = "done", !.reply = ChatResponse(s.result.text)])

\* A handler whose error path takes the process down instead of replying.
ChatHandlerErrPanics(r) ==
    LET s == req[r] IN
    /\ s.pc = "returned"
    /\ s.result.tag = "Err"
    /\ proc.state = "serving"
    /\ proc' = [proc EXCEPT !.state = "panicked"]
    /\ UNCHANGED <<env, req, cli>>

\* chat_handler: Err(e) => logged, the 500 reply with e.
ChatHandlerErr(r) ==
    LET s == req[r] IN
    /\ s.pc = "returned"
    /\ s.result.tag = "Err"
    /\ Step(r, [Logged(s, <<"Error calling Gemini API: ">> \o s.result.err)
                  EXCEPT !.pc = "done", !.reply = ErrorResponse(500, s.result.err)])

(***************************************************************************)
(* The command-line client, run_interactive_chat of src/src/cli.rs.  The   *)
(* standard input is a sequence of items, each what one read_line gives:   *)
(* a line, or an error; past the last item read_line gives no bytes.       *)
(***************************************************************************)

\* Longest standard input, in lines.
MaxLines == 4

\* A string of single characters as a text.
Line(chars) == [i \in DOMAIN chars |-> Run(chars[i], 1)]

RECURSIVE CharsOf(_)
\* The characters of a text, one by one.
CharsOf(s) ==
    IF s = <<>> THEN <<>>
    ELSE [i \in 1..Head(s).n |-> Head(s).ch] \o CharsOf(Tail(s))

UPPERCASE ==
    <<"A", "B", "C", "D", "E", "F", "G", "H", "I", "J", "K", "L", "M",
      "N", "O", "P", "Q", "R", "S", "T", "U", "V", "W", "X", "Y", "Z">>

LOWERCASE ==
    <<"a", "b", "c", "d", "e", "f", "g", "h", "i", "j", "k", "l", "m",
      "n", "o", "p", "q", "r", "s", "t", "u", "v", "w", "x", "y", "z">>

\* u8::to_ascii_lowercase.
ToAsciiLowercase(c) ==
    IF \E i \in DOMAIN UPPERCASE : UPPERCASE[i] = c
    THEN LOWERCASE[CHOOSE i \in DOMAIN UPPERCASE : UPPERCASE[i] = c]
    ELSE c

\* str::eq_ignore_ascii_case.
EqIgnoreAsciiCase(a, b) ==
    LET x == CharsOf(a)
        y == CharsOf(b)
    IN  /\ Len(x) = Len(y)
        /\ \A i \in DOMAIN x : ToAsciiLowercase(x[i]) = ToAsciiLowercase(y[i])

EXIT == Line(<<"e", "x", "i", "t">>)
QUIT == Line(<<"q", "u", "i", "t">>)

\* IsExit by plain equality.
IsExitCaseSensitive(message) == message = EXIT \/ message = QUIT

\* message.eq_ignore_ascii_case("exit") || message.eq_ignore_ascii_case("quit").
IsExit(message) == EqIgnoreAsciiCase(message, EXIT) \/ EqIgnoreAsciiCase(message, QUIT)

\* What read_line gives: Ok with the line read, or Err.
ReadOk(line) == [ok |-> TRUE, line |-> line, error |-> ""]
ReadErr(e) == [ok |-> FALSE, line |-> <<>>, error |-> e]

\* read_line at the position the client is at; Ok(0) with nothing read at the
\* end of the input.
ReadLine(c) == IF c.pos < Len(c.stdin) THEN c.stdin[c.pos + 1] ELSE ReadOk(<<>>)

\* The position after a read.
AfterRead(c) ==
    IF c.pos < Len(c.stdin) THEN [c EXCEPT !.pos = @ + 1] ELSE [c EXCEPT !.eof = TRUE]

Printed(c, to, line) == [c EXCEPT !.out = Append(@, [to |-> to, line |-> line])]

\* What the POST to http://localhost:3000/chat comes back with.
NoAnswer ==
    [connected |-> FALSE, error |-> "", status |-> 0, readable |-> FALSE,
     raw |-> <<>>, json |-> FALSE, response |-> <<>>, string |-> FALSE]

ConnectError(e) == [NoAnswer EXCEPT !.error = e]

\* The server's reply as the client receives it: the status, and the JSON of
\* ChatResponse or of ErrorResponse.
Answer(reply) ==
    [NoAnswer EXCEPT !.connected = TRUE, !.status = reply.status, !.readable = TRUE,
                     !.json = TRUE,
                     !.raw = IF reply.status = 200
                             THEN <<"{\"response\":\"", reply.response, "\"}">>
                             ELSE <<"{\"error\":\"">> \o reply.error \o <<"\"}">>,
                     !.response = reply.response,
                     !.string = (reply.status = 200)]

\* Something else listening on port 3000: a success status with a body that is
\* no JSON.
NOT_JSON ==
    [NoAnswer EXCEPT !.connected = TRUE, !.status = 200, !.readable = TRUE,
                     !.raw = <<"<html>">>]

\* A success status with JSON that has no string under "response".
NO_RESPONSE_FIELD ==
    [NoAnswer EXCEPT !.connected = TRUE, !.status = 200, !.readable = TRUE,
                     !.raw = <<"{}">>, !.json = TRUE]

\* send_chat_request, given what the POST comes back with.
SendChatRequest(a) ==
    IF ~a.connected
    THEN Err(<<"Failed to connect to server: ", a.error,
               ". Make sure the server is running on port 3000.">>)
    ELSE IF ~IsSuccess(a.status)
    THEN Err(<<"Server error: ">> \o (IF a.readable THEN a.raw ELSE <<"Unknown error">>))
    ELSE IF ~(a.readable /\ a.json)
    THEN Err(<<"Failed to parse response: ", "expected value at line 1 column 1">>)
    ELSE IF ~a.string
    THEN Err(<<"Invalid response format">>)
    ELSE Ok(a.response)

\* The request send_chat_request posts.
ChatPost(message) == [url |-> "http://localhost:3000/chat", json |-> [message |-> message]]

\* main in command-line mode: run_interactive_chat prints its two lines and
\* enters the loop.
MainCli ==
    /\ proc.state = "main"
    /\ IsCliMode(proc.args)
    /\ proc' = [proc EXCEPT !.state = "cli"]
    /\ cli' = Printed(Printed([cli EXCEPT !.pc = "loop"],
                              "stdout", <<"Rust AI Chatbot - Interactive Mode">>),
                      "stdout", <<"Type 'exit' or 'quit' to end the conversation">>)
    /\ UNCHANGED <<env, req>>

\* The head of the loop: the prompt "You: " is printed and flushed, and the
\* client waits in read_line.
CliPrompt ==
    /\ proc.state = "cli"
    /\ cli.pc = "loop"
    /\ cli' = [cli EXCEPT !.pc = "read"]
    /\ UNCHANGED <<env, proc, req>>

\* The loop: read_line is Ok, the trimmed input is empty: continue.
CliEmptyInput ==
    /\ proc.state = "cli"
    /\ cli.pc = "read"
    /\ ReadLine(cli).ok
    /\ Trim(ReadLine(cli).line) = <<>>
    /\ cli' = [AfterRead(cli) EXCEPT !.pc = "loop"]
    /\ UNCHANGED <<env, proc, req>>

\* The loop: the trimmed input is exit or quit: the farewell, break, and main
\* returns.
CliExit ==
    /\ proc.state = "cli"
    /\ cli.pc = "read"
    /\ ReadLine(cli).ok
    /\ Trim(ReadLine(cli).line) # <<>>
    /\ IsExit(Trim(ReadLine(cli).line))
    /\ cli' = Printed([AfterRead(cli) EXCEPT !.pc = "returned"], "stdout", <<"Goodbye!">>)
    /\ proc' = [proc EXCEPT !.state = "exited"]
    /\ UNCHANGED <<env, req>>

\* The loop: any other input: send_chat_request(message) posts the trimmed
\* input and is awaited.
CliSend ==
    /\ proc.state = "cli"
    /\ cli.pc = "read"
    /\ ReadLine(cli).ok
    /\ Trim(ReadLine(cli).line) # <<>>
    /\ ~IsExit(Trim(ReadLine(cli).line))
    /\ cli' = [AfterRead(cli) EXCEPT !.pc = "await",
                                     !.posted = Append(@, ChatPost(Trim(ReadLine(cli).line)))]
    /\ UNCHANGED <<env, proc, req>>

\* The loop: read_line is Err: the error is printed, break, and main returns.
CliReadError ==
    /\ proc.state = "cli"
    /\ cli.pc = "read"
    /\ ~ReadLine(cli).ok
    /\ cli' = Printed([AfterRead(cli) EXCEPT !.pc = "returned"], "stderr",
                      <<"Error reading input: ", ReadLine(cli).error>>)
    /\ proc' = [proc EXCEPT !.state = "exited"]
    /\ UNCHANGED <<env, req>>

CONNECTION_REFUSED == ConnectError("error sending request: connection refused")

\* What the client's POST can come back with.
ServerAnswers ==
    {CONNECTION_REFUSED, Answer(ChatResponse(WORLD)), Answer(ErrorResponse(500, EXHAUSTED)),
     NOT_JSON, NO_RESPONSE_FIELD}

\* send_chat_request is Ok(response): the reply is printed.
CliBot ==
    /\ proc.state = "cli"
    /\ cli.pc = "await"
    /\ \E a \in ServerAnswers :
         /\ SendChatRequest(a).tag = "Ok"
         /\ cli' = Printed([cli EXCEPT !.pc = "loop"], "stdout",
                           <<"Bot: ", SendChatRequest(a).text>>)
    /\ UNCHANGED <<env, proc, req>>

\* send_chat_request is Err(e): the error is printed, and the loop goes on.
CliError ==
    /\ proc.state = "cli"
    /\ cli.pc = "await"
    /\ \E a \in ServerAnswers :
         /\ SendChatRequest(a).tag = "Err"
         /\ cli' = Printed([cli EXCEPT !.pc = "loop"], "stderr",
                           <<"Error: ">> \o SendChatRequest(a).err)
    /\ UNCHANGED <<env, proc, req>>

Next ==
    \/ MainServe
    \/ MainBindFailed
    \/ \E r \in DOMAIN req : ChatHandlerEmpty(r)
    \/ \E r \in DOMAIN req : ChatHandlerTooLong(r)
    \/ \E r \in DOMAIN req : ChatHandlerCall(r)
    \/ \E r \in DOMAIN req : ApiKeyMissing(r)
    \/ \E r \in DOMAIN req : ClientBuildFailed(r)
    \/ \E r \in DOMAIN req : ClientBuilt(r)
    \/ \E r \in DOMAIN req : SendRequest(r)
    \/ \E r \in DOMAIN req : SendFailed(r)
    \/ \E r \in DOMAIN req : SendOk(r)
    \/ \E r \in DOMAIN req : JsonText(r)
    \/ \E r \in DOMAIN req : JsonNoText(r)
    \/ \E r \in DOMAIN req : JsonFailed(r)
    \/ \E r \in DOMAIN req : ErrorStructured(r)
    \/ \E r \in DOMAIN req : ErrorUnstructured(r)
    \/ \E r \in DOMAIN req : LoopExhausted(r)
    \/ \E r \in DOMAIN req : ChatHandlerOk(r)
    \/ \E r \in DOMAIN req : ChatHandlerErr(r)

NextCli ==
    \/ MainCli
    \/ CliPrompt
    \/ CliEmptyInput
    \/ CliExit
    \/ CliSend
    \/ CliReadError
    \/ CliBot
    \/ CliError

(***************************************************************************)
(* The upstream's behaviours and the initial states.                       *)
(***************************************************************************)

\* The candidates in the order of the two loops: API versions outside, models
\* inside.
PriorityList ==
    << <<"v1beta", "gemini-2.5-flash">>, <<"v1beta", "gemini-flash-latest">>,
       <<"v1beta", "gemini-pro-latest">>, <<"v1beta", "gemini-2.0-flash">>,
       <<"v1", "gemini-2.5-flash">>, <<"v1", "gemini-flash-latest">>,
       <<"v1", "gemini-pro-latest">>, <<"v1", "gemini-2.0-flash">> >>

Position(cand) == CHOOSE i \in DOMAIN PriorityList : PriorityList[i] = cand

TIMEOUT == TransportError("operation timed out")
REFUSED == TransportError("connection refused")
GARBAGE_200 == HttpResponse(200, PlainBody("<html>"))
BROKEN_200 == HttpResponse(200, BrokenBody)
ERROR_200 == HttpResponse(200, ErrorBody(500, "INTERNAL", "internal"))
NO_CANDIDATES == HttpResponse(200, GenerationBody(<<>>))
NO_PARTS == HttpResponse(200, GenerationBody(<< <<>>, <<WORLD>> >>))
QUOTA == HttpResponse(429, ErrorBody(429, "RESOURCE_EXHAUSTED", "quota"))
BIG_CODE == HttpResponse(404, ErrorBody(70000, "NOT_FOUND", "no such model"))
UNAVAILABLE == HttpResponse(503, PlainBody("Service Unavailable"))
BROKEN_500 == HttpResponse(500, BrokenBody)
GENERATION_404 == HttpResponse(404, GenerationBody(<< <<WORLD>> >>))

Generated(text) == HttpResponse(200, GenerationBody(<< <<text>> >>))
GENERATED_MANY == HttpResponse(201, GenerationBody(<< <<PADDED_WORLD, WORLD>>, <<WORLD>> >>))

\* The outcomes the resolver treats as a candidate's failure.
FailureOutcomes ==
    {TIMEOUT, REFUSED, GARBAGE_200, BROKEN_200, ERROR_200, NO_CANDIDATES, NO_PARTS,
     QUOTA, BIG_CODE, UNAVAILABLE, BROKEN_500, GENERATION_404}

SuccessOutcomes == {Generated(t) : t \in Texts} \cup {GENERATED_MANY}

Outcomes == FailureOutcomes \cup SuccessOutcomes

\* The upstream that answers the candidates before the k-th with a and b in
\* turn, and the k-th and later ones with c.
Script(a, b, c, k) ==
    [cand \in Candidates |->
        LET i == Position(cand) IN
        IF i < k THEN (IF i % 2 = 1 THEN a ELSE b) ELSE c]

\* The upstream that answers the i-th candidate with seq[i].
ScriptOf(seq) == [cand \in Candidates |-> seq[Position(cand)]]

Scripts ==
    {Script(a, b, c, k) :
        a \in {TIMEOUT, GARBAGE_200, NO_CANDIDATES, QUOTA},
        b \in {TIMEOUT, NO_PARTS, BROKEN_200, UNAVAILABLE},
        c \in Outcomes, k \in 1..(Len(PriorityList) + 1)}

ALL_KINDS_FAIL ==
    ScriptOf(<<TIMEOUT, GARBAGE_200, NO_CANDIDATES, NO_PARTS, QUOTA, UNAVAILABLE,
               BIG_CODE, BROKEN_500>>)

ALL_QUOTA == Script(QUOTA, QUOTA, QUOTA, 1)

GatewayScripts ==
    {ALL_KINDS_FAIL, ALL_QUOTA}
    \cup {Script(TIMEOUT, QUOTA, o, 3) : o \in SuccessOutcomes}

PairScripts == {ALL_KINDS_FAIL, ALL_QUOTA, Script(GARBAGE_200, REFUSED, Generated(WORLD), 2)}

TOO_LONG_MESSAGE == <<Run(LATIN_A, MAX_MESSAGE_LEN + 1)>>

SweepMessages == {HELLO, <<>>, TOO_LONG_MESSAGE}

\* The server's process runs no command-line client.
NoCli ==
    [pc |-> "none", stdin |-> <<>>, pos |-> 0, eof |-> FALSE, posted |-> <<>>,
     out |-> <<>>]

\* The server's process: the chat calls it will be given.
InitWith(ids, msgs, scripts) ==
    /\ env \in EnvStates
    /\ proc = NewProcess(<<"chatbot">>)
    /\ req \in [ids -> {NewCall(m, u) : m \in msgs, u \in scripts}]
    /\ cli = NoCli

\* One chat call, a short message, the upstream in many behaviours.
Init == InitWith({1}, SweepMessages, Scripts)

Spec == Init /\ [][Next]_vars

\* One chat call, the message from all the messages.
BLANK_LINE == Line(<<SPACE, LINE_FEED>>)
EXIT_LINE == Line(<<"e", "x", "i", "t", LINE_FEED>>)
PADDED_QUIT_LINE == Line(<<SPACE, "Q", "u", "I", "T", SPACE, LINE_FEED>>)
EXITS_LINE == Line(<<"e", "x", "i", "t", "s", LINE_FEED>>)
INVALID_UTF8 == ReadErr("stream did not contain valid UTF-8")

StdinItems ==
    {ReadOk(BLANK_LINE), ReadOk(EXIT_LINE), ReadOk(PADDED_QUIT_LINE), ReadOk(EXITS_LINE),
     INVALID_UTF8}

\* The standard inputs of at most MaxLines items.
Stdins == UNION {[1..n -> StdinItems] : n \in 0..MaxLines}

\* The process started in command-line mode, with a standard input; the client
\* never reads the key.
InitCli ==
    /\ env = NotPresent
    /\ proc = NewProcess(<<"chatbot", "chat">>)
    /\ req = <<>>
    /\ cli \in {[NoCli EXCEPT !.stdin = lines] : lines \in Stdins}

SpecCli == InitCli /\ [][NextCli]_vars

\* The standard inputs of at most two items.
ShortStdins == {lines \in Stdins : Len(lines) <= 2}

InitCliShort ==
    /\ env = NotPresent
    /\ proc = NewProcess(<<"chatbot", "chat">>)
    /\ req = <<>>
    /\ cli \in {[NoCli EXCEPT !.stdin = lines] : lines \in ShortStdins}

\* The client's loop runs on while it can: a step it can take is taken, every
\* read of the standard input and every POST returning.
SpecCliFair == InitCliShort /\ [][NextCli]_vars /\ WF_vars(NextCli)

\* Every step of the server that can be taken is eventually taken: the runtime
\* polls every ready future, and every upstream call completes or runs into the
\* client's 30 second timeout.
SpecFair == Init /\ [][Next]_vars /\ WF_vars(Next)

InitGateway == InitWith({1}, Messages, GatewayScripts)

SpecGateway == InitGateway /\ [][Next]_vars

\* Two chat calls of one process.
InitPair == InitWith({1, 2}, SweepMessages, PairScripts)

SpecPair == InitPair /\ [][Next]_vars

(***************************************************************************)
(* The resolver's contract.                                                *)
(***************************************************************************)

\* The candidates a call has sent a request for, in the order sent, read from
\* the URLs of the requests.
Attempted(s) == [i \in 1..Len(s.calls) |-> <<s.calls[i].url[2], s.calls[i].url[4]>>]

IsPrefix(a, b) == Len(a) <= Len(b) /\ a = SubSeq(b, 1, Len(a))

\* The resolver was called and has returned to chat_handler.
Returned(s) == s.result # NoResult

\* An outcome that is a success status with decodable text.
Succeeds(o) ==
    /\ o.sent
    /\ IsSuccess(o.status)
    /\ o.body.readable
    /\ o.body.json = "generation"
    /\ Len(o.body.candidates) >= 1
    /\ Len(o.body.candidates[1]) >= 1

\* The text of the first part of the first generation of a succeeding outcome.
GeneratedText(o) == o.body.candidates[1][1]

\* The positions in priority order whose outcome succeeds.
SuccessPositions(u) == {i \in DOMAIN PriorityList : Succeeds(u[PriorityList[i]])}

First(S) == CHOOSE i \in S : \A j \in S : i <= j

\* C1: first success wins. If candidate k is the first in priority order whose
\* attempt succeeds, no candidate after k is ever attempted, and a resolver that
\* ran the sweep returns exactly the text of candidate k, having attempted the
\* candidates 1..k.
FirstSuccessWins ==
    \A r \in DOMAIN req :
        LET s == req[r]
            wins == SuccessPositions(s.upstream)
        IN wins # {} =>
            /\ Len(s.calls) <= First(wins)
            /\ (Returned(s) /\ s.client = "built") =>
                  /\ s.result = Ok(GeneratedText(s.upstream[PriorityList[First(wins)]]))
                  /\ Attempted(s) = SubSeq(PriorityList, 1, First(wins))

\* A call returned the third candidate's text after two failures, and the fourth
\* candidate, which would have succeeded too, was never attempted.
FirstSuccessWinsWitness ==
    \E r \in DOMAIN req :
        /\ req[r].pc = "done"
        /\ req[r].result.tag = "Ok"
        /\ Len(req[r].calls) = 3
        /\ First(SuccessPositions(req[r].upstream)) = 3
        /\ Succeeds(req[r].upstream[PriorityList[4]])

\* C2: attempt order. The candidates attempted are always a prefix of the fixed
\* priority list (API versions outside, models inside): none skipped, reordered
\* or attempted twice.
AttemptOrder ==
    \A r \in DOMAIN req :
        /\ IsPrefix(Attempted(req[r]), PriorityList)
        /\ \A i \in DOMAIN req[r].calls :
              /\ req[r].calls[i].api_version = PriorityList[i][1]
              /\ req[r].calls[i].model = PriorityList[i][2]

\* A call attempted all eight candidates, both API versions.
AttemptOrderWitness ==
    \E r \in DOMAIN req : req[r].pc = "done" /\ Len(req[r].calls) = Len(PriorityList)

\* An outcome that is a failure of its candidate: a transport failure, a success
\* status whose body does not decode or lacks the text, or another status.
Fails(o) ==
    \/ ~o.sent
    \/ /\ o.sent
       /\ IsSuccess(o.status)
       /\ \/ ~o.body.readable
          \/ o.body.json # "generation"
          \/ o.body.candidates = <<>>
          \/ o.body.candidates[1] = <<>>
    \/ o.sent /\ ~IsSuccess(o.status)

\* C3: no failure of a candidate aborts the sweep. When the resolver has
\* returned, every attempted candidate that is not the last of the list and
\* whose attempt failed is followed by the attempt of the next candidate in
\* priority order; and while such an attempt is being finished the resolver has
\* not returned.
NoFailureAborts ==
    \A r \in DOMAIN req :
        LET s == req[r] IN
        \A j \in 1..(Len(PriorityList) - 1) :
            (j <= Len(s.calls) /\ Fails(s.upstream[PriorityList[j]])) =>
                /\ Returned(s) =>
                      /\ Len(s.calls) >= j + 1
                      /\ Attempted(s)[j + 1] = PriorityList[j + 1]
                /\ (Len(s.calls) = j) => s.result = NoResult

\* A 429 RESOURCE_EXHAUSTED answer for the first candidate and a 200 without
\* parts for the second were passed over and the third candidate's text returned.
NoFailureAbortsWitness ==
    \E r \in DOMAIN req :
        /\ req[r].pc = "done"
        /\ req[r].upstream[PriorityList[1]] = QUOTA
        /\ req[r].upstream[PriorityList[2]] = NO_PARTS
        /\ Len(req[r].calls) = 3
        /\ req[r].result.tag = "Ok"

\* C4: exhaustion. With a credential present, a resolver that has returned has
\* returned the exhausted failure exactly if all eight candidates were attempted,
\* each once, and every one of them failed; and the exhausted failure is never
\* the result while a candidate is unattempted.
ExhaustedIffAllFailed ==
    \A r \in DOMAIN req :
        LET s == req[r] IN
        /\ (Returned(s) /\ EnvVar(env).ok) =>
              ((s.result = Err(EXHAUSTED)) <=>
                  /\ Attempted(s) = PriorityList
                  /\ \A c \in Candidates : Fails(s.upstream[c]))
        /\ (s.result = Err(EXHAUSTED)) => Attempted(s) = PriorityList

\* A call whose eight attempts all failed returned the exhausted failure.
ExhaustedIffAllFailedWitness ==
    \E r \in DOMAIN req :
        /\ req[r].pc = "returned"
        /\ req[r].result = Err(EXHAUSTED)
        /\ Len(req[r].calls) = Len(PriorityList)

\* C5: missing credential. Without a credential the resolver returns the
\* configuration error, which is not the exhausted failure, and the call has
\* issued no upstream request, at any time.
MissingCredential ==
    \A r \in DOMAIN req :
        ~EnvVar(env).ok =>
            /\ req[r].calls = <<>>
            /\ Returned(req[r]) =>
                  /\ req[r].result = Err(KEY_NOT_FOUND)
                  /\ req[r].result # Err(EXHAUSTED)

\* The resolver returned for a valid message with the variable unset.
MissingCredentialWitness ==
    \E r \in DOMAIN req :
        /\ env = NotPresent
        /\ req[r].pc = "returned"
        /\ req[r].message = HELLO

(***************************************************************************)
(* The gateway's contract.                                                 *)
(***************************************************************************)

\* A message all of whose characters are whitespace: its trimmed form is empty.
AllWhitespace(m) == \A i \in DOMAIN m : IsWhitespace(m[i].ch)

\* chat_handler has gone past its two checks.
Validated(s) == s.pc # "chat_handler"

\* C6: empty-message validation. Every message whose trimmed form is empty, of
\* any length, gets the 400 "Message cannot be empty", whatever its length, and
\* the resolver is not called.
EmptyMessageRejected ==
    \A r \in DOMAIN req :
        LET s == req[r] IN
        (Validated(s) /\ AllWhitespace(s.message)) =>
            /\ s.pc = "done"
            /\ s.reply = [status |-> 400, response |-> <<>>, error |-> EMPTY_MESSAGE]
            /\ s.result = NoResult
            /\ s.calls = <<>>

\* A message of whitespace only that is longer than the limit was answered
\* "Message cannot be empty".
EmptyMessageRejectedWitness ==
    \E r \in DOMAIN req :
        /\ req[r].pc = "done"
        /\ req[r].message # <<>>
        /\ AllWhitespace(req[r].message)
        /\ CharCount(req[r].message) > MAX_MESSAGE_LEN
        /\ req[r].reply.error = EMPTY_MESSAGE

\* C7 as stated: every message of more than 10000 characters gets the 400
\* "Message is too long (max 10000 characters)".
TooLongRejectedAlways ==
    \A r \in DOMAIN req :
        LET s == req[r] IN
        (Validated(s) /\ CharCount(s.message) > MAX_MESSAGE_LEN) =>
            s.reply = [status |-> 400, response |-> <<>>, error |-> TOO_LONG]

\* C7: too-long validation. Every message of more than 10000 characters (and
\* so of more than 10000 bytes) whose trimmed form is not empty gets the 400
\* "Message is too long (max 10000 characters)", however short its trimmed form,
\* and the resolver is not called.
TooLongRejected ==
    \A r \in DOMAIN req :
        LET s == req[r] IN
        (/\ Validated(s)
         /\ CharCount(s.message) > MAX_MESSAGE_LEN \/ ByteLen(s.message) > MAX_MESSAGE_LEN
         /\ ~AllWhitespace(s.message)) =>
            /\ s.pc = "done"
            /\ s.reply = [status |-> 400, response |-> <<>>, error |-> TOO_LONG]
            /\ s.result = NoResult
            /\ s.calls = <<>>

\* A message of 10000 spaces and one letter, whose trimmed form is one letter,
\* was answered "Message is too long".
TooLongRejectedWitness ==
    \E r \in DOMAIN req :
        /\ req[r].pc = "done"
        /\ req[r].message = <<Run(SPACE, MAX_MESSAGE_LEN), Run(LATIN_A, 1)>>
        /\ req[r].reply.error = TOO_LONG

\* C8: the length bound is measured in characters. A message whose trimmed form
\* is not empty is rejected as too long only when it has more than 10000
\* characters, and with at most 10000 characters it is passed to the resolver.
LengthInCharacters ==
    \A r \in DOMAIN req :
        LET s == req[r] IN
        (Validated(s) /\ ~AllWhitespace(s.message)) =>
            /\ (s.reply.error = TOO_LONG) => CharCount(s.message) > MAX_MESSAGE_LEN
            /\ (CharCount(s.message) <= MAX_MESSAGE_LEN) => s.reply.status # 400

\* C9: round trip of the reply. When the resolver has returned Ok(text) and the
\* handler has answered, the answer is the 200 response whose response field is
\* the text of the first succeeding candidate of the upstream exactly as the
\* upstream generated it.
ReplyRoundTrip ==
    \A r \in DOMAIN req :
        LET s == req[r]
            wins == SuccessPositions(s.upstream)
        IN
        /\ (s.pc = "done" /\ s.result.tag = "Ok") =>
              /\ wins # {}
              /\ s.reply = [status |-> 200,
                            response |-> GeneratedText(s.upstream[PriorityList[First(wins)]]),
                            error |-> <<>>]
        /\ (s.pc = "done" /\ s.client = "built" /\ wins # {}) => s.reply.status = 200

\* A text with a space before and after it was returned as generated.
ReplyRoundTripWitness ==
    \E r \in DOMAIN req :
        /\ req[r].pc = "done"
        /\ req[r].reply.status = 200
        /\ req[r].reply.response = PADDED_WORLD
        /\ Trim(req[r].message) # req[r].message

\* The empty text was returned as generated.
ReplyRoundTripEmptyWitness ==
    \E r \in DOMAIN req :
        /\ req[r].pc = "done"
        /\ req[r].reply.status = 200
        /\ req[r].reply.response = <<>>

\* The strings the upstream of a call answers with.
UpstreamDetails(u) ==
    UNION { {u[c].error, u[c].body.raw, u[c].body.message, u[c].body.status,
             ToString(u[c].status), ToString(u[c].body.code)} : c \in Candidates }

\* The handler has answered a call whose resolution failed.
Failed(s) == s.pc = "done" /\ s.result.tag = "Err"

\* C10 as stated: whenever resolution fails the answer is a 500 with the fixed
\* message of the credential state, the same for any two calls with the same
\* message, and without the credential.
FixedErrorAlways ==
    \A r1 \in DOMAIN req : \A r2 \in DOMAIN req :
        LET s1 == req[r1]
            s2 == req[r2]
        IN Failed(s1) =>
            /\ s1.reply.status = 500
            /\ s1.reply.error = IF EnvVar(env).ok THEN EXHAUSTED ELSE KEY_NOT_FOUND
            /\ ~Contains(s1.reply.error, API_KEY)
            /\ (Failed(s2) /\ s1.message = s2.message) => s1.reply = s2.reply

\* C10: no upstream detail reaches the caller. Whenever resolution fails the
\* answer is a 500: with the fixed message of the missing credential, or with
\* the fixed message of exhaustion, or, when the HTTP client could not be built,
\* with "Failed to create HTTP client: " and the builder's error. No piece of it
\* is a string of the upstream's answers or the credential, and two calls with
\* the same message that both swept the candidates get the same answer however
\* their upstreams answered.
NoUpstreamDetail ==
    \A r1 \in DOMAIN req : \A r2 \in DOMAIN req :
        LET s1 == req[r1]
            s2 == req[r2]
        IN Failed(s1) =>
            /\ s1.reply.status = 500
            /\ s1.reply.response = <<>>
            /\ s1.reply.error =
                  IF ~EnvVar(env).ok THEN KEY_NOT_FOUND
                  ELSE IF s1.client = "built" THEN EXHAUSTED
                  ELSE s1.result.err
            /\ (EnvVar(env).ok /\ s1.client # "built") =>
                  \E e \in ClientBuildErrors : s1.reply.error = ClientError(e)
            /\ \A i \in DOMAIN s1.reply.error :
                  /\ s1.reply.error[i] \notin UpstreamDetails(s1.upstream)
                  /\ s1.reply.error[i] # API_KEY
            /\ (Failed(s2) /\ s1.message = s2.message
                   /\ s1.client = "built" /\ s2.client = "built") => s1.reply = s2.reply

\* Two calls with the same message whose upstreams failed in different ways, one
\* with a 429 for every candidate, were both answered.
NoUpstreamDetailWitness ==
    \E r1 \in DOMAIN req : \E r2 \in DOMAIN req :
        /\ Failed(req[r1])
        /\ Failed(req[r2])
        /\ req[r1].message = req[r2].message
        /\ req[r1].upstream = ALL_QUOTA
        /\ req[r2].upstream = ALL_KINDS_FAIL
        /\ Len(req[r1].calls) = Len(PriorityList)
        /\ Len(req[r2].calls) = Len(PriorityList)

(***************************************************************************)
(* The process without its credential.                                     *)
(***************************************************************************)

\* C11 as stated: with the credential missing the server serves and every chat
\* call that is answered is answered with the 500 of the configuration error.
ConfigErrorForEveryCall ==
    ~EnvVar(env).ok =>
        /\ proc.state # "exited"
        /\ \A r \in DOMAIN req :
              req[r].pc = "done" =>
                  req[r].reply = [status |-> 500, response |-> <<>>, error |-> KEY_NOT_FOUND]

\* C11: with the credential missing the process does not exit for it (main only
\* warns), and every chat call whose message passes validation is answered with
\* the 500 of the configuration error, no upstream request made; a call whose
\* message is empty when trimmed or too long is answered with its 400.
ConfigErrorForValidCalls ==
    ~EnvVar(env).ok =>
        /\ proc.state \in {"main", "serving", "panicked"}
        /\ proc.state = "panicked" =>
              proc.stderr[Len(proc.stderr)] =
                  <<"Failed to bind to port 3000. Is another server running?">>
        /\ \A r \in DOMAIN req :
              LET s == req[r] IN
              s.pc = "done" =>
                  /\ s.calls = <<>>
                  /\ s.reply =
                        IF AllWhitespace(s.message)
                        THEN [status |-> 400, response |-> <<>>, error |-> EMPTY_MESSAGE]
                        ELSE IF ByteLen(s.message) > MAX_MESSAGE_LEN
                        THEN [status |-> 400, response |-> <<>>, error |-> TOO_LONG]
                        ELSE [status |-> 500, response |-> <<>>, error |-> KEY_NOT_FOUND]

\* The server, started with the variable unset and warned, answered a valid
\* message with the 500 of the configuration error.
ConfigErrorForValidCallsWitness ==
    \E r \in DOMAIN req :
        /\ env = NotPresent
        /\ proc.state = "serving"
        /\ Len(proc.stderr) = 2
        /\ req[r].pc = "done"
        /\ req[r].reply.status = 500
        /\ req[r].reply.error = KEY_NOT_FOUND

(***************************************************************************)
(* The resolver's behaviour.                                               *)
(***************************************************************************)

\* The outcome of the attempt of the j-th request a call has sent.
OutcomeOf(s, j) == s.upstream[Attempted(s)[j]]

\* A success status whose body does not decode against the success schema, or
\* has no generation, or whose first generation has no part.
SuccessWithoutText(o) ==
    /\ o.sent
    /\ IsSuccess(o.status)
    /\ \/ ~o.body.readable
       \/ o.body.json # "generation"
       \/ o.body.candidates = <<>>
       \/ o.body.candidates[1] = <<>>

\* C13: no partial or garbage text. An Ok(text) of the resolver is the text of
\* the first part of the first generation of the last response received, which
\* had a success status and decoded against the success schema; and an attempt
\* that ended in a success status without such a text is never the one the
\* resolver returns Ok from: a later candidate was attempted, or it was the last
\* candidate and the result is the exhausted failure.
NoGarbageText ==
    \A r \in DOMAIN req :
        LET s == req[r] IN
        /\ s.result.tag = "Ok" =>
              /\ s.calls # <<>>
              /\ LET o == OutcomeOf(s, Len(s.calls)) IN
                 /\ o.sent
                 /\ IsSuccess(o.status)
                 /\ o.body.readable
                 /\ o.body.json = "generation"
                 /\ o.body.candidates # <<>>
                 /\ o.body.candidates[1] # <<>>
                 /\ s.result.text = o.body.candidates[1][1]
        /\ \A j \in DOMAIN s.calls :
              (Returned(s) /\ SuccessWithoutText(OutcomeOf(s, j))) =>
                  \/ j < Len(s.calls)
                  \/ j = Len(PriorityList) /\ s.result = Err(EXHAUSTED)

\* A 200 without generations and a 200 whose first generation has no part (its
\* second has one) were passed over, and the third candidate's text returned.
NoGarbageTextWitness ==
    \E r \in DOMAIN req :
        /\ req[r].pc = "done"
        /\ req[r].upstream[PriorityList[1]] = NO_CANDIDATES
        /\ req[r].upstream[PriorityList[2]] = NO_PARTS
        /\ Len(req[r].calls) = 3
        /\ req[r].result.tag = "Ok"

\* The loop bodies a call has run to their end.
Completed(s) == IF s.vi = 0 THEN 0 ELSE (s.vi - 1) * Len(models) + (s.mi - 1)

\* The requests of a call that were sent and whose attempt has not ended.
InFlight(s) ==
    IF s.pc \in {"send", "json", "text"} THEN Len(s.calls) - Completed(s)
    ELSE IF s.result.tag = "Ok" THEN Len(s.calls) - Completed(s) - 1
    ELSE Len(s.calls) - Completed(s)

\* C14: strictly sequential attempts. A call has at most one upstream request
\* in flight, one exactly while it awaits send() or reads the body; and a request
\* is sent only from the head of the loop, one at a time, with no response in
\* hand, after the attempt of the request before it has ended in a failure.
SequentialAttempts ==
    /\ [](\A r \in DOMAIN req :
            /\ InFlight(req[r]) = IF req[r].pc \in {"send", "json", "text"} THEN 1 ELSE 0
            /\ req[r].pc \in {"send", "json", "text"} =>
                  Current(req[r]) = Attempted(req[r])[Len(req[r].calls)])
    /\ [][\A r \in DOMAIN req :
            Len(req[r].calls') # Len(req[r].calls) =>
                /\ Len(req[r].calls') = Len(req[r].calls) + 1
                /\ req[r].pc = "loop"
                /\ req[r].response = NoOutcome
                /\ req[r].calls # <<>> => Fails(OutcomeOf(req[r], Len(req[r].calls)))]_vars

\* The fifth candidate's error body is being read, the four before it done.
SequentialAttemptsWitness ==
    \E r \in DOMAIN req :
        /\ req[r].pc = "text"
        /\ Len(req[r].calls) = 5
        /\ Completed(req[r]) = 4

\* The log line that tells the outcome of an attempt: its first piece for the
\* kind of outcome, and the details it has to carry.
TellsOutcome(line, o) ==
    IF ~o.sent
    THEN line[1] = "Failed to send request to " /\ Contains(line, o.error)
    ELSE IF Succeeds(o) THEN line[1] = "Success with "
    ELSE IF IsSuccess(o.status) THEN line[1] = "Failed to parse response from "
    ELSE \/ /\ line[1] = "API error from "
            /\ Contains(line, ToString(o.body.code))
            /\ Contains(line, o.body.status)
            /\ Contains(line, o.body.message)
         \/ /\ line[1] = "HTTP "
            /\ Contains(line, ToString(o.status))
            /\ Contains(line, ErrorText(o.body))

\* C15: diagnostic logging of every attempt. For every attempt that has ended,
\* the call's log has a line that names the candidate (API version and model)
\* and tells the kind of its outcome with its details.
EveryAttemptLogged ==
    \A r \in DOMAIN req :
        LET s == req[r] IN
        \A j \in DOMAIN s.calls :
            (j < Len(s.calls) \/ Returned(s)) =>
                \E i \in DOMAIN s.log :
                    /\ Contains(s.log[i], Attempted(s)[j][1])
                    /\ Contains(s.log[i], Attempted(s)[j][2])
                    /\ TellsOutcome(s.log[i], OutcomeOf(s, j))

Responded(s) == s.pc = "done" /\ s.reply # NoReply /\ s.reply.status \in {200, 400, 500}

\* C16: every chat call terminates with a response. Once the server serves,
\* every call eventually has a reply, which is one of success (200),
\* bad request (400) and internal error (500), after at most 8 upstream
\* attempts; a reply once given is never replaced, and no step of a call takes
\* the serving process down.
EveryCallResponds ==
    /\ [](\A r \in DOMAIN req : Len(req[r].calls) <= Len(api_versions) * Len(models))
    /\ [][proc.state = "serving" => proc'.state = "serving"]_vars
    /\ [][\A r \in DOMAIN req : req[r].reply # NoReply => req'[r] = req[r]]_vars
    /\ (proc.state = "serving") ~> (\A r \in DOMAIN req : Responded(req[r]))

EveryCallRespondsWitness ==
    \E r \in DOMAIN req :
        /\ proc.state = "serving"
        /\ Responded(req[r])
        /\ Len(req[r].calls) = 8
        /\ req[r].reply = ErrorResponse(500, EXHAUSTED)

\* What a call does when it runs alone: the number of upstream attempts and the
\* reply, from its own message, the credential, its own client and the outcomes
\* of its own attempts.
AloneAttempts(s) ==
    IF AllWhitespace(s.message) \/ ByteLen(s.message) > MAX_MESSAGE_LEN THEN 0
    ELSE IF ~EnvVar(env).ok \/ s.client = "failed" THEN 0
    ELSE IF SuccessPositions(s.upstream) = {} THEN Len(PriorityList)
    ELSE First(SuccessPositions(s.upstream))

AloneReply(s) ==
    IF AllWhitespace(s.message) THEN ErrorResponse(400, EMPTY_MESSAGE)
    ELSE IF ByteLen(s.message) > MAX_MESSAGE_LEN THEN ErrorResponse(400, TOO_LONG)
    ELSE IF ~EnvVar(env).ok THEN ErrorResponse(500, KEY_NOT_FOUND)
    ELSE IF s.client = "failed" THEN ErrorResponse(500, s.result.err)
    ELSE IF SuccessPositions(s.upstream) = {} THEN ErrorResponse(500, EXHAUSTED)
    ELSE ChatResponse(GeneratedText(s.upstream[PriorityList[First(SuccessPositions(s.upstream))]]))

\* C17: cross-request independence. With two calls interleaved in any way, each
\* call attempts the candidates it would attempt alone, in the same order, is
\* answered what it would be answered alone, and a step of one call changes
\* nothing of the other.
CrossRequestIndependence ==
    /\ [](\A r \in DOMAIN req :
            LET s == req[r] IN
            /\ IsPrefix(Attempted(s), SubSeq(PriorityList, 1, AloneAttempts(s)))
            /\ \A j \in DOMAIN s.calls : s.calls[j].url = Url(PriorityList[j][1], PriorityList[j][2], EnvVar(env).value)
            /\ s.pc = "done" =>
                 /\ Len(s.calls) = AloneAttempts(s)
                 /\ s.reply = AloneReply(s))
    /\ [][\A r1, r2 \in DOMAIN req :
            (r1 # r2 /\ req'[r1] # req[r1]) => req'[r2] = req[r2]]_vars

CrossRequestIndependenceWitness ==
    /\ req[1].pc = "done" /\ req[2].pc = "done"
    /\ req[1].reply.status = 200 /\ req[2].reply.status = 500
    /\ Len(req[1].calls) > 1 /\ Len(req[2].calls) = Len(PriorityList)
    /\ Len(req[1].log) > 0 /\ Len(req[2].log) > 0

\* C18: the message is forwarded unmodified. The body of every upstream request
\* of a call is one content of one part whose text is the call's message as it
\* came in, untrimmed, and is the same for all the candidates of the call.
MessageForwardedUnmodified ==
    \A r \in DOMAIN req :
        LET s == req[r] IN
        \A j \in DOMAIN s.calls :
            /\ Len(s.calls[j].json.contents) = 1
            /\ Len(s.calls[j].json.contents[1].parts) = 1
            /\ s.calls[j].json.contents[1].parts[1].text = s.message
            /\ s.calls[j].json = s.calls[1].json

MessageForwardedUnmodifiedWitness ==
    \E r \in DOMAIN req :
        LET s == req[r] IN
        /\ Trim(s.message) # s.message
        /\ Len(s.calls) >= 2
        /\ s.calls[2].url # s.calls[1].url
        /\ s.calls[2].json.contents[1].parts[1].text = s.message

\* C19: validation failures have no upstream effect. A call answered 400 has
\* not called the resolver, has not read the credential and has sent no upstream
\* request; and an upstream request is sent only for a message whose trim is
\* not empty and whose length is within the limit.
ValidationHasNoUpstreamEffect ==
    \A r \in DOMAIN req :
        LET s == req[r] IN
        /\ (s.reply # NoReply /\ s.reply.status = 400) =>
              /\ s.result = NoResult
              /\ s.api_key = ""
              /\ s.client = "none"
              /\ s.calls = <<>>
              /\ s.log = <<>>
        /\ s.calls # <<>> =>
              /\ Trim(s.message) # <<>>
              /\ ByteLen(s.message) <= MAX_MESSAGE_LEN

ValidationHasNoUpstreamEffectWitness ==
    \E r \in DOMAIN req :
        LET s == req[r] IN
        /\ EnvVar(env).ok
        /\ s.pc = "done"
        /\ s.reply = ErrorResponse(400, TOO_LONG)
        /\ Trim(s.message) # <<>>
        /\ s.calls = <<>>

\* A line of the input that is exit or quit once trimmed, in any case.
ExitLine(item) ==
    /\ item.ok
    /\ [i \in DOMAIN CharsOf(Trim(item.line)) |-> ToAsciiLowercase(CharsOf(Trim(item.line))[i])]
         \in {<<"e", "x", "i", "t">>, <<"q", "u", "i", "t">>}

\* A line of the input that is to be posted.
Postable(item) == item.ok /\ Trim(item.line) # <<>> /\ ~ExitLine(item)

RECURSIVE PostableLines(_, _)
\* The posts for the postable lines among the first n items, in order.
PostableLines(stdin, n) ==
    IF n = 0 THEN <<>>
    ELSE PostableLines(stdin, n - 1)
            \o (IF Postable(stdin[n]) THEN <<ChatPost(Trim(stdin[n].line))>> ELSE <<>>)

\* The first exit or quit line, the length of the input if there is none.
FirstExit(stdin) ==
    IF \E i \in DOMAIN stdin : ExitLine(stdin[i])
    THEN CHOOSE i \in DOMAIN stdin : ExitLine(stdin[i]) /\ \A j \in 1..(i - 1) : ~ExitLine(stdin[j])
    ELSE Len(stdin)

\* The first item that is an exit or quit line or a failed read.
FirstStop(stdin) ==
    IF \E i \in DOMAIN stdin : ExitLine(stdin[i]) \/ ~stdin[i].ok
    THEN CHOOSE i \in DOMAIN stdin :
            /\ ExitLine(stdin[i]) \/ ~stdin[i].ok
            /\ \A j \in 1..(i - 1) : ~(ExitLine(stdin[j]) \/ ~stdin[j].ok)
    ELSE Len(stdin)

\* The client has read all it will read: it has returned, or it is at the end
\* of the input.
CliReadAll ==
    cli.pc = "returned" \/ (cli.pc \in {"loop", "read"} /\ cli.pos = Len(cli.stdin))

Replies(c) == {i \in DOMAIN c.out : c.out[i].line[1] \in {"Bot: ", "Error: "}}

\* C12 as written: a line is posted if and only if its trimmed form is not
\* empty, is not exit or quit, and it precedes the first exit or quit line.
PostedUntilExit ==
    CliReadAll => cli.posted = PostableLines(cli.stdin, FirstExit(cli.stdin))

\* C12: the command-line client's loop. A line is posted, trimmed, if and only
\* if its trimmed form is not empty, is not exit or quit in any case, and it
\* precedes the first exit or quit line and the first failed read; nothing past
\* that line is read or posted and the loop ends there; a blank line posts
\* nothing and the loop goes on; every post is answered by one printed line,
\* the reply or the error, and the loop goes on after either.
PostedUntilExitOrReadError ==
    /\ [](cli.pc # "none" =>
            /\ cli.pos <= FirstStop(cli.stdin)
            /\ cli.posted = PostableLines(cli.stdin, cli.pos)
            /\ cli.pc = "returned" <=>
                  (cli.pos >= 1 /\ cli.pos = FirstStop(cli.stdin) /\ ~Postable(cli.stdin[cli.pos])
                   /\ (ExitLine(cli.stdin[cli.pos]) \/ ~cli.stdin[cli.pos].ok))
            /\ CliReadAll => cli.posted = PostableLines(cli.stdin, FirstStop(cli.stdin))
            /\ Cardinality(Replies(cli)) = Len(cli.posted) - (IF cli.pc = "await" THEN 1 ELSE 0))
    /\ [][cli.pc = "await" =>
            /\ cli'.pc = "loop"
            /\ cli'.posted = cli.posted
            /\ Replies(cli') = Replies(cli) \cup {Len(cli'.out)}]_vars
    /\ [][(cli.pc = "read" /\ cli.pos < Len(cli.stdin) /\ ReadLine(cli).ok
           /\ Trim(ReadLine(cli).line) = <<>>) =>
            /\ cli'.pc = "loop"
            /\ cli'.pos = cli.pos + 1
            /\ cli'.posted = cli.posted]_vars

\* A blank line, a post that failed, a post after it, the exit line in capitals
\* with blanks around it, and a line after it that is not read.
PostedUntilExitOrReadErrorWitness ==
    /\ cli.pc = "returned"
    /\ cli.pos < Len(cli.stdin)
    /\ ExitLine(cli.stdin[cli.pos])
    /\ Trim(cli.stdin[cli.pos].line) # EXIT
    /\ Trim(cli.stdin[cli.pos].line) # QUIT
    /\ Len(cli.posted) >= 1
    /\ \E i \in Replies(cli) : cli.out[i].line[1] = "Error: "
    /\ cli.out[Len(cli.out)].line = <<"Goodbye!">>

\* C20: the client terminates when the standard input ends. Once a read has
\* returned no bytes, the loop eventually stops and run_interactive_chat
\* returns.
EndOfInputEndsLoop == cli.eof ~> (cli.pc = "returned")

====
